---- MODULE Spec2Model ----
(***************************************************************************)
(* GlooRouter (pkg/router/gloo.go): the read-modify-write of an            *)
(* UpstreamGroup's weighted destination list by Reconcile, GetRoutes,      *)
(* SetRoutes and Finalize, in the three revisions the repository holds:    *)
(*   rev 1  src/pkg/router/gloo.go lines 1-166   (canary-lookup, append)   *)
(*   rev 2  src/pkg/router/gloo.go lines 168-363 (diff-gated, replace)     *)
(*   rev 3  src/unnamed/part_000                 (rebuild on reconcile)    *)
(* The UpstreamGroup lives in the API server: Get returns the object with  *)
(* its resourceVersion, Update is rejected when that version is stale.     *)
(***************************************************************************)
EXTENDS Integers, Sequences, FiniteSets, TLC

\* ---------------------------------------------------------------- bounds
\* longest destination list a group starts with (or another writer stores)
MaxLen == 3
\* number of successful writes the store accepts in one behaviour
MaxVersion == 2

\* ------------------------------------------------------------- constants
\* the internal weight of a full share, and internal units per percent
FullWeight == 1000
WeightPerPercent == 10

\* fmt.Sprintf("%s-canary-%v", apexName, port) and fmt.Sprintf("%s-%v", ...)
\* for the one rollout descriptor of the model (apex "podinfo", port 9898)
canaryName == "podinfo-canary-9898"
primaryName == "podinfo-9898"
otherName == "legacy-9898"
\* canary.Namespace, and a namespace that is not the canary's
canaryNamespace == "prod"
otherNamespace == "shared"

Revisions == {1, 2, 3}
Callers == {"c1", "c2"}

\* gloov1.WeightedDestination: Destination.Upstream.{Name, Namespace}, Weight
WeightedDestination(n, ns, w) == [name |-> n, ns |-> ns, weight |-> w]
\* the zero value of the struct, as make([]WeightedDestination, n) fills it
ZeroDestination == WeightedDestination("", "", 0)

\* the entries a pre-provisioned group is built from
EntryPool ==
    { WeightedDestination(primaryName, canaryNamespace, 700),
      WeightedDestination(canaryName, canaryNamespace, 305),
      WeightedDestination(otherName, otherNamespace, 500) }

GroupLists == UNION { [1..n -> EntryPool] : n \in 0..MaxLen }

\* the (primaryWeight, canaryWeight, mirror) arguments the controller passes
RouteArgs ==
    { <<0, 0, FALSE>>, <<0, 0, TRUE>>, <<70, 30, FALSE>>, <<100, 0, FALSE>>,
      <<0, 100, TRUE>>, <<60, 30, FALSE>> }

\* ------------------------------------------------------- list operations
\* the index the range loops stop at: the first entry with this name, or 0
IndexOf(s, n) ==
    IF \E i \in 1..Len(s) : s[i].name = n
    THEN CHOOSE i \in 1..Len(s) :
            s[i].name = n /\ \A j \in 1..(i - 1) : s[j].name # n
    ELSE 0

\* mutant of remove: the truncation without the move of the last entry
remove_TruncateOnly(s, i) == SubSeq(s, 1, Len(s) - 1)

\* remove: s[i] = s[len(s)-1]; return s[:len(s)-1]   (i is 1-based here)
remove(s, i) == SubSeq([s EXCEPT ![i] = s[Len(s)]], 1, Len(s) - 1)

\* mutant of toPercent: the weight is rounded to the nearest percent
toPercent_Rounded(w) == (w + 5) \div WeightPerPercent

\* int(dst.Weight) / 10
toPercent(w) == w \div WeightPerPercent
\* uint32(percent * 10): the conversion keeps every product of a percentage in
\* 0..100, the only ones the controller passes (RouteArgs)
toInternal(p) == p * WeightPerPercent

\* mutant of IgnoreWeight: the comparison without the IgnoreFields option
IgnoreWeight_Kept(s) == s

\* the destination list with the Weight field dropped, as
\* cmpopts.IgnoreFields(gloov1.WeightedDestination{}, "Weight") compares it
IgnoreWeight(s) == [i \in 1..Len(s) |-> [name |-> s[i].name, ns |-> s[i].ns]]

\* what a call decided after its Get: the result it returns without writing
\* (write = FALSE), or the list it hands to Update and the event it logs after
Plan(res, err, write, dests, event) ==
    [res |-> res, err |-> err, write |-> write, dests |-> dests, event |-> event]

\* ------------------------------------------------------------ revision 1
\* the entry Reconcile appends when the canary destination is missing
CanaryAtZero == WeightedDestination(canaryName, canaryNamespace, 0)

\* mutant of Reconcile1: the canary entry is appended without the lookup
Reconcile1_AlwaysAppend(s) ==
    Plan("ok", "none", TRUE, Append(s, WeightedDestination(canaryName, canaryNamespace, 0)), "no_update")

\* mutant of Reconcile1: the canary entry is put in front of the list
Reconcile1_Prepend(s) ==
    IF \E i \in 1..Len(s) : s[i].name = canaryName
    THEN Plan("ok", "none", FALSE, s, "no_update")
    ELSE Plan("ok", "none", TRUE,
              <<WeightedDestination(canaryName, canaryNamespace, 0)>> \o s,
              "no_update")

\* Reconcile: append the canary entry at weight 0 when no entry has its name;
\* the closing Infof ("has NO update") is logged on every successful return
Reconcile1(s) ==
    IF IndexOf(s, canaryName) = 0
    THEN Plan("ok", "none", TRUE, Append(s, CanaryAtZero), "no_update")
    ELSE Plan("ok", "none", FALSE, s, "no_update")

\* GetRoutes: the canary entry's weight in percent, the primary as the rest
GetRoutes1(s) ==
    IF Len(s) < 2
    THEN [primary |-> 0, canary |-> 0, mirrored |-> FALSE,
          err |-> "InsufficientDestinations"]
    ELSE IF IndexOf(s, canaryName) = 0
    THEN [primary |-> 0, canary |-> 0, mirrored |-> FALSE,
          err |-> "DestinationNotFound"]
    ELSE LET cw == toPercent(s[IndexOf(s, canaryName)].weight)
         IN  [primary |-> 100 - cw, canary |-> cw, mirrored |-> FALSE,
              err |-> "none"]

\* mutant of SetCanaryWeight1: the percentage is stored without the scaling
SetCanaryWeight1_Unscaled(s, c) ==
    IF \A i \in 1..Len(s) : s[i].name # canaryName
    THEN s
    ELSE [s EXCEPT ![CHOOSE i \in 1..Len(s) : s[i].name = canaryName
                           /\ \A j \in 1..(i - 1) : s[j].name # canaryName].weight = c]

\* mutant of SetCanaryWeight1: the loop without its break
SetCanaryWeight1_NoBreak(s, c) ==
    [i \in 1..Len(s) |->
        IF s[i].name = canaryName
        THEN [s[i] EXCEPT !.weight = toInternal(c)]
        ELSE s[i]]

\* the range loop of SetRoutes: Destinations[i].Weight = uint32(canaryWeight*10)
SetCanaryWeight1(s, c) ==
    IF IndexOf(s, canaryName) = 0
    THEN s
    ELSE [s EXCEPT ![IndexOf(s, canaryName)].weight = toInternal(c)]

\* SetRoutes after its Get: the Update is issued whether or not an entry matched
SetRoutes1(s, p, c) == Plan("ok", "none", TRUE, SetCanaryWeight1(s, c), "none")

\* mutant of RemoveCanary1: the loop never matches
RemoveCanary1_Keep(s) == s

\* the range loop of Finalize: remove the first entry named canaryName, if any
RemoveCanary1(s) ==
    IF IndexOf(s, canaryName) = 0 THEN s ELSE remove(s, IndexOf(s, canaryName))

\* Finalize after its Get: the Update is issued whether or not an entry matched
Finalize1(s) == Plan("ok", "none", TRUE, RemoveCanary1(s), "none")

\* ------------------------------------------------------------ revision 2
\* newSpec: the canonical two entries, primary at 1000 and canary at 0
newSpec ==
    << WeightedDestination(primaryName, canaryNamespace, FullWeight),
       WeightedDestination(canaryName, canaryNamespace, 0) >>

\* Reconcile: cmp.Diff(newSpec, upstreamGroup.Spec, IgnoreFields(Weight)) gates
\* the write of clone.Spec = newSpec and the "updated" event
Reconcile2(s) ==
    IF IgnoreWeight(newSpec) # IgnoreWeight(s)
    THEN Plan("ok", "none", TRUE, newSpec, "updated")
    ELSE Plan("ok", "none", FALSE, s, "none")

\* GetRoutes: the primary entry's weight in percent, the canary as the rest;
\* the loop falling through returns the zero values and a nil error
GetRoutes2(s) ==
    IF Len(s) < 2
    THEN [primary |-> 0, canary |-> 0, mirrored |-> FALSE,
          err |-> "InsufficientDestinations"]
    ELSE IF IndexOf(s, primaryName) = 0
    THEN [primary |-> 0, canary |-> 0, mirrored |-> FALSE, err |-> "none"]
    ELSE LET pw == toPercent(s[IndexOf(s, primaryName)].weight)
         IN  [primary |-> pw, canary |-> 100 - pw, mirrored |-> FALSE,
              err |-> "none"]

\* SetRoutes after its Get: the Spec is overridden by the two canonical entries
SetRoutes2(s, p, c) ==
    Plan("ok", "none", TRUE,
         << WeightedDestination(primaryName, canaryNamespace, toInternal(p)),
            WeightedDestination(canaryName, canaryNamespace, toInternal(c)) >>,
         "none")

\* ------------------------------------------------------------ revision 3
\* Reconcile, canary present: make([]..., len+1) then append of every entry;
\* newDestinations[i].Weight = 0 lands on the i-th zero-valued slot
Rebuild3(s) == [i \in 1..(Len(s) + 1) |-> ZeroDestination] \o s

\* Reconcile: the Update and the "updated" event follow on both branches
Reconcile3(s) ==
    IF IndexOf(s, canaryName) = 0
    THEN Plan("ok", "none", TRUE, Append(s, CanaryAtZero), "updated")
    ELSE Plan("ok", "none", TRUE, Rebuild3(s), "updated")

\* GetRoutes of revision 3 is the primary lookup of revision 2
GetRoutes3(s) ==
    IF Len(s) < 2
    THEN [primary |-> 0, canary |-> 0, mirrored |-> FALSE,
          err |-> "InsufficientDestinations"]
    ELSE IF IndexOf(s, primaryName) = 0
    THEN [primary |-> 0, canary |-> 0, mirrored |-> FALSE, err |-> "none"]
    ELSE LET pw == toPercent(s[IndexOf(s, primaryName)].weight)
         IN  [primary |-> pw, canary |-> 100 - pw, mirrored |-> FALSE,
              err |-> "none"]

\* SetRoutes: dst.Weight = ... assigns to the loop's copy, the list is as read
SetRoutes3(s, p, c) == Plan("ok", "none", TRUE, s, "none")

\* Finalize: idx stays 0 when no entry matches, and remove(s, idx) runs anyway;
\* on an empty list s[0] is out of range and the call panics
Finalize3(s) ==
    IF Len(s) = 0
    THEN Plan("panic", "IndexOutOfRange", FALSE, s, "none")
    ELSE IF IndexOf(s, canaryName) = 0
    THEN Plan("ok", "none", TRUE, remove(s, 1), "none")
    ELSE Plan("ok", "none", TRUE, remove(s, IndexOf(s, canaryName)), "none")

\* ------------------------------------------------------------- dispatch
ReconcilePlan(r, s) ==
    CASE r = 1 -> Reconcile1(s) [] r = 2 -> Reconcile2(s) [] OTHER -> Reconcile3(s)

GetRoutesResult(r, s) ==
    CASE r = 1 -> GetRoutes1(s) [] r = 2 -> GetRoutes2(s) [] OTHER -> GetRoutes3(s)

SetRoutesPlan(r, s, p, c) ==
    CASE r = 1 -> SetRoutes1(s, p, c)
      [] r = 2 -> SetRoutes2(s, p, c)
      [] OTHER -> SetRoutes3(s, p, c)

\* Finalize of revision 2 returns nil before any Get; 1 and 3 plan after it
FinalizePlan(r, s) == IF r = 1 THEN Finalize1(s) ELSE Finalize3(s)

\* mutant of InvalidWeights: only negative weights are refused
InvalidWeights_Negative(p, c) == p < 0 \/ c < 0

\* if primaryWeight == 0 && canaryWeight == 0 { return ... "no valid weights" }
InvalidWeights(p, c) == p = 0 /\ c = 0

\* ----------------------------------------------------------------- state
VARIABLES
    rev,     \* the revision of the router this behaviour runs
    store,   \* the UpstreamGroup in the API server: exists, dests, ver
    pc,      \* per caller: "idle", or "update" between its Get and its Update
    loc,     \* per caller: the call in flight (the object its Get returned)
    last,    \* the call (or foreign write) that completed last
    prev     \* a summary of the one that completed before it

vars == <<rev, store, pc, loc, last, prev>>

NoRoutes == [primary |-> 0, canary |-> 0, mirrored |-> FALSE]

\* a completed call as an observer records it: what was stored when it began
\* (pre) and when it returned (post), what its Get answered ("none": no Get
\* was issued), how many Gets and Updates it issued
Call(k, op, p, c, m, res, err, pre, preVer, post, postVer, get, updates, event, out) ==
    [caller |-> k, op |-> op, p |-> p, c |-> c, mirror |-> m,
     res |-> res, err |-> err, pre |-> pre, preVer |-> preVer,
     post |-> post, postVer |-> postVer, get |-> get,
     gets |-> IF get = "none" THEN 0 ELSE 1, updates |-> updates,
     event |-> event, out |-> out]

NoCall ==
    Call("none", "none", 0, 0, FALSE, "none", "none", <<>>, 0, <<>>, 0, "none", 0,
         "none", NoRoutes)

\* what is kept of the call before the last: a successful call's name and
\* weights, a failed one only as "failed"
Summary(r) ==
    IF r.res = "ok"
    THEN [op |-> r.op, p |-> r.p, c |-> r.c, mirror |-> r.mirror,
          updates |-> r.updates]
    ELSE [op |-> "failed", p |-> 0, c |-> 0, mirror |-> FALSE, updates |-> 0]

NoLoc == [op |-> "none", p |-> 0, c |-> 0, mirror |-> FALSE,
          dests |-> <<>>, ver |-> 0, plan |-> Plan("none", "none", FALSE, <<>>, "none")]

Init ==
    /\ rev \in Revisions
    /\ \/ \E s \in GroupLists : store = [exists |-> TRUE, dests |-> s, ver |-> 0]
       \/ store = [exists |-> FALSE, dests |-> <<>>, ver |-> 0]
    /\ pc = [k \in Callers |-> "idle"]
    /\ loc = [k \in Callers |-> NoLoc]
    /\ last = NoCall
    /\ prev = [op |-> "none", p |-> 0, c |-> 0, mirror |-> FALSE, updates |-> 0]

\* ------------------------------------------------------------- the store
\* UpstreamGroups(ns).Get: the object, a NotFound error, or another failure
GetOutcomes == IF store.exists THEN {"ok", "Transport"} ELSE {"NotFound", "Transport"}

\* mutant of ReconcileGetError: the IsNotFound branch is gone
ReconcileGetError_NoNotFound(o) == "QueryError"

\* the error Reconcile returns for a failed Get: errors.IsNotFound first
ReconcileGetError(o) == IF o = "NotFound" THEN "GroupNotFound" ELSE "QueryError"

\* mutant of UpdateToken: the Update is sent with the version now stored
UpdateToken_Fresh(k) == store.ver

\* the version the store compares an Update's object with: its resourceVersion
UpdateToken(k) == loc[k].ver

\* a call returns: it becomes the last completed call, the caller is idle again
Return(k, rec) ==
    /\ prev' = Summary(last)
    /\ last' = rec
    /\ pc' = [pc EXCEPT ![k] = "idle"]
    /\ loc' = [loc EXCEPT ![k] = NoLoc]

\* a call that returns without an Update: the store is as it was
ReturnUnwritten(k, op, p, c, m, res, err, get, event, out) ==
    /\ Return(k, Call(k, op, p, c, m, res, err, store.dests, store.ver,
                      store.dests, store.ver, get, 0, event, out))
    /\ UNCHANGED <<rev, store>>

\* a mutating call after its successful Get: return at once when the plan has
\* nothing to write (or panicked), else hold the object read until the Update
AfterGet(k, op, p, c, m, plan) ==
    IF plan.write
    THEN /\ pc' = [pc EXCEPT ![k] = "update"]
         /\ loc' = [loc EXCEPT ![k] =
                [op |-> op, p |-> p, c |-> c, mirror |-> m,
                 dests |-> store.dests, ver |-> store.ver, plan |-> plan]]
         /\ UNCHANGED <<rev, store, last, prev>>
    ELSE ReturnUnwritten(k, op, p, c, m, plan.res, plan.err, "ok",
                         IF plan.res = "ok" THEN plan.event ELSE "none", NoRoutes)

\* --------------------------------------------------------------- actions
\* Reconcile up to its Update: the Get, the lookup, the plan
Reconcile(k) ==
    /\ pc[k] = "idle"
    /\ \E o \in GetOutcomes :
          IF o # "ok"
          THEN ReturnUnwritten(k, "Reconcile", 0, 0, FALSE, "error",
                               ReconcileGetError(o), o, "none", NoRoutes)
          ELSE AfterGet(k, "Reconcile", 0, 0, FALSE, ReconcilePlan(rev, store.dests))

\* GetRoutes: one Get and the conversion of the weight it finds
GetRoutes(k) ==
    /\ pc[k] = "idle"
    /\ \E o \in GetOutcomes :
          IF o # "ok"
          THEN ReturnUnwritten(k, "GetRoutes", 0, 0, FALSE, "error", "QueryError",
                               o, "none", NoRoutes)
          ELSE LET r == GetRoutesResult(rev, store.dests)
               IN  ReturnUnwritten(k, "GetRoutes", 0, 0, FALSE,
                       IF r.err = "none" THEN "ok" ELSE "error", r.err, "ok", "none",
                       [primary |-> r.primary, canary |-> r.canary,
                        mirrored |-> r.mirrored])

\* SetRoutes up to its Update, called with one of the given arguments: the
\* weight check, the Get, the plan
SetRoutesWith(k, args) ==
    /\ pc[k] = "idle"
    /\ \E pw \in args :
          IF InvalidWeights(pw[1], pw[2])
          THEN ReturnUnwritten(k, "SetRoutes", pw[1], pw[2], pw[3], "error",
                               "InvalidWeights", "none", "none", NoRoutes)
          ELSE \E o \in GetOutcomes :
                  IF o # "ok"
                  THEN ReturnUnwritten(k, "SetRoutes", pw[1], pw[2], pw[3], "error",
                                       "QueryError", o, "none", NoRoutes)
                  ELSE AfterGet(k, "SetRoutes", pw[1], pw[2], pw[3],
                                SetRoutesPlan(rev, store.dests, pw[1], pw[2]))

SetRoutes(k) == SetRoutesWith(k, RouteArgs)

\* Finalize up to its Update (revision 2: the stub that returns nil)
Finalize(k) ==
    /\ pc[k] = "idle"
    /\ IF rev = 2
       THEN ReturnUnwritten(k, "Finalize", 0, 0, FALSE, "ok", "none", "none",
                            "none", NoRoutes)
       ELSE \E o \in GetOutcomes :
               IF o # "ok"
               THEN ReturnUnwritten(k, "Finalize", 0, 0, FALSE, "error",
                                    "QueryError", o, "none", NoRoutes)
               ELSE AfterGet(k, "Finalize", 0, 0, FALSE,
                             FinalizePlan(rev, store.dests))

\* the Update of the call in flight: the store rejects a stale resourceVersion
\* (Conflict), may fail otherwise, or stores the list under a new version; the
\* call returns the wrapped error, or nil after the event its plan logs
Update(k) ==
    /\ pc[k] = "update"
    /\ \E o \in {"ok", "Transport"} :
          LET c == loc[k]
              stale == UpdateToken(k) # store.ver
              done == o = "ok" /\ ~stale
              err == IF done THEN "none"
                     ELSE IF o = "ok" THEN "Conflict" ELSE "UpdateError"
          IN  /\ done => store.ver < MaxVersion
              /\ store' = IF done
                          THEN [store EXCEPT !.dests = c.plan.dests, !.ver = @ + 1]
                          ELSE store
              /\ Return(k, Call(k, c.op, c.p, c.c, c.mirror,
                                IF done THEN "ok" ELSE "error", err,
                                c.dests, c.ver, store'.dests, store'.ver, "ok", 1,
                                IF done THEN c.plan.event ELSE "none", NoRoutes))
              /\ UNCHANGED rev

\* the edits another writer makes: it drops the last entry or adds one
ExternalEdits(s) ==
    (IF Len(s) > 0 THEN {SubSeq(s, 1, Len(s) - 1)} ELSE {})
    \cup (IF Len(s) < MaxLen THEN {Append(s, e) : e \in EntryPool} ELSE {})

\* another writer (a second controller, an operator) updates the group
ExternalWrite ==
    /\ store.exists
    /\ store.ver < MaxVersion
    /\ \E s \in ExternalEdits(store.dests) :
          /\ store' = [store EXCEPT !.dests = s, !.ver = @ + 1]
          /\ prev' = Summary(last)
          /\ last' = Call("external", "External", 0, 0, FALSE, "ok", "none",
                          s, store.ver + 1, s, store.ver + 1, "none", 1, "none",
                          NoRoutes)
    /\ UNCHANGED <<rev, pc, loc>>

Next ==
    \/ \E k \in {"c1"} : Reconcile(k)
    \/ \E k \in {"c1"} : GetRoutes(k)
    \/ \E k \in {"c1"} : SetRoutes(k)
    \/ \E k \in {"c1"} : Finalize(k)
    \/ \E k \in {"c1"} : Update(k)
    \/ ExternalWrite

Spec == Init /\ [][Next]_vars

\* ================================================================ claims
\* the errors that come from the store, not from the router's own checks
StoreErrors == {"GroupNotFound", "QueryError", "Conflict", "UpdateError"}

HasName(s, n) == \E i \in 1..Len(s) : s[i].name = n
UniqueNames(s) == \A i, j \in 1..Len(s) : s[i].name = s[j].name => i = j
Count(s, e) == Cardinality({i \in 1..Len(s) : s[i] = e})
SameMultiset(a, b) ==
    /\ Len(a) = Len(b)
    /\ \A i \in 1..Len(a) : Count(a, a[i]) = Count(b, a[i])
WeightOf(s, n) == s[IndexOf(s, n)].weight

\* C1 (as stated): in revision 1, a GetRoutes that follows a successful
\* SetRoutes(d, p, c, false) with p + c = 100, no other writer in between,
\* returns (p, c, false) and no error.  It is taken on the stored groups of
\* two or more entries: with fewer GetRoutes answers InsufficientDestinations
\* by design, so a failure here is one of SetRoutes having reported success.
C1_RoundTrip ==
    ( /\ rev = 1
      /\ prev.op = "SetRoutes" /\ ~prev.mirror /\ prev.p + prev.c = 100
      /\ last.op = "GetRoutes" /\ last.err \notin StoreErrors
      /\ Len(last.pre) >= 2 )
    => /\ last.res = "ok"
       /\ last.out = [primary |-> prev.p, canary |-> prev.c, mirrored |-> FALSE]

\* C2: in revisions 1 and 2, a Reconcile that directly follows a successful
\* Reconcile (no call and no foreign write in between) issues no Update and
\* leaves the stored list and its version as they were; the pair of calls
\* wrote at most once.
C2_ReconcileIdempotent ==
    ( /\ rev \in {1, 2}
      /\ prev.op = "Reconcile"
      /\ last.op = "Reconcile" )
    => /\ last.updates = 0
       /\ last.post = last.pre
       /\ last.postVer = last.preVer
       /\ prev.updates + last.updates <= 1

\* C2 witness: a second Reconcile returned after a first one that had written
C2_Witness ==
    /\ rev \in {1, 2}
    /\ prev.op = "Reconcile" /\ prev.updates = 1
    /\ last.op = "Reconcile" /\ last.res = "ok" /\ last.updates = 0

\* C3 (as stated): in revision 3, Finalize on a group with no entry named
\* canaryName (the empty list included) returns success, without a panic, and
\* stores the same multiset of entries.
C3_FinalizeIdempotent ==
    ( /\ rev = 3
      /\ last.op = "Finalize" /\ last.err \notin StoreErrors
      /\ ~HasName(last.pre, canaryName) )
    => /\ last.res = "ok"
       /\ SameMultiset(last.post, last.pre)

\* C4: in revision 1, a successful Finalize on a list of unique names that
\* holds the canary entry stores a list with no entry named canaryName, one
\* entry shorter, in which every other entry of the list read occurs once.
C4_FinalizeRemovesCanary ==
    ( /\ rev = 1
      /\ last.op = "Finalize" /\ last.res = "ok"
      /\ UniqueNames(last.pre) /\ HasName(last.pre, canaryName) )
    => /\ ~HasName(last.post, canaryName)
       /\ Len(last.post) = Len(last.pre) - 1
       /\ \A i \in 1..Len(last.pre) :
             last.pre[i].name # canaryName => Count(last.post, last.pre[i]) = 1

\* C4 witness: [primary@700, canary@300] was finalized to [primary@700]
C4_Witness ==
    /\ rev = 1
    /\ last.op = "Finalize" /\ last.res = "ok"
    /\ last.pre = << WeightedDestination(primaryName, canaryNamespace, 700),
                     WeightedDestination(canaryName, canaryNamespace, 300) >>
    /\ last.post = << WeightedDestination(primaryName, canaryNamespace, 700) >>

\* C5: in revision 1, an Update carries the version its own call's Get read;
\* when the stored version has moved on since that Get, the Update changes
\* nothing in the store and the call returns an error at once, having issued
\* one Get and one Update (no retry): the other writer's list stays.
C5_NoLostUpdate ==
    [][ \A k \in Callers :
          ( /\ rev = 1
            /\ pc[k] = "update" /\ pc'[k] = "idle"
            /\ loc[k].ver # store.ver )
          => /\ store' = store
             /\ last'.caller = k /\ last'.op = loc[k].op
             /\ last'.res = "error"
             /\ last'.err \in {"Conflict", "UpdateError"}
             /\ last'.gets = 1 /\ last'.updates = 1
             /\ last'.preVer = loc[k].ver
             /\ last'.post = store.dests /\ last'.postVer = store.ver ]_vars

\* C5 witness: a call of revision 1 ended in a conflict right after a foreign
\* write, and the stored list is not the one the call had read
C5_Witness ==
    /\ rev = 1
    /\ last.op \in {"Reconcile", "SetRoutes", "Finalize"}
    /\ last.err = "Conflict"
    /\ prev.op = "External"
    /\ last.post # last.pre /\ last.postVer = last.preVer + 1

\* C6: in every revision SetRoutes(d, 0, 0, mirror) returns InvalidWeights for
\* either value of mirror, with no Get and no Update: list and version stay.
C6_ZeroWeightsRejected ==
    ( last.op = "SetRoutes" /\ last.p = 0 /\ last.c = 0 )
    => /\ last.res = "error" /\ last.err = "InvalidWeights"
       /\ last.gets = 0 /\ last.updates = 0
       /\ last.post = last.pre /\ last.postVer = last.preVer
       /\ store.dests = last.pre /\ store.ver = last.preVer

\* C6 witness: SetRoutes(d, 0, 0, true) was rejected on a non-empty group
C6_Witness ==
    /\ last.op = "SetRoutes" /\ last.p = 0 /\ last.c = 0 /\ last.mirror
    /\ last.err = "InvalidWeights"
    /\ Len(last.pre) > 0

\* C7: in revision 1, a successful Reconcile on a list with no entry named
\* canaryName stores that list, unchanged and in order, followed by one entry
\* (canaryName, the canary's namespace, weight 0).
C7_CanaryAppended ==
    ( /\ rev = 1
      /\ last.op = "Reconcile" /\ last.res = "ok"
      /\ ~HasName(last.pre, canaryName) )
    => last.post = last.pre \o << [name |-> canaryName, ns |-> canaryNamespace,
                                   weight |-> 0] >>

\* C7 witness: [primary@700] was reconciled to [primary@700, canary@0]
C7_Witness ==
    /\ rev = 1
    /\ last.op = "Reconcile" /\ last.res = "ok" /\ last.updates = 1
    /\ last.pre = << WeightedDestination(primaryName, canaryNamespace, 700) >>
    /\ last.post = << WeightedDestination(primaryName, canaryNamespace, 700),
                      WeightedDestination(canaryName, canaryNamespace, 0) >>

\* C8 (as stated): in revision 1, SetRoutes with weights not both zero on a
\* list with no entry named canaryName returns DestinationNotFound (the store
\* calls themselves not failing), never success.
C8_MissingCanaryIsError ==
    ( /\ rev = 1
      /\ last.op = "SetRoutes" /\ ~(last.p = 0 /\ last.c = 0)
      /\ last.err \notin StoreErrors
      /\ ~HasName(last.pre, canaryName) )
    => /\ last.res = "error"
       /\ last.err = "DestinationNotFound"

\* C9 (as stated): in revisions 2 and 3, GetRoutes on a list of two or more
\* entries none of which is named primaryName returns DestinationNotFound.
C9_MissingPrimaryIsError ==
    ( /\ rev \in {2, 3}
      /\ last.op = "GetRoutes" /\ last.err \notin StoreErrors
      /\ Len(last.pre) >= 2
      /\ ~HasName(last.pre, primaryName) )
    => /\ last.res = "error"
       /\ last.err = "DestinationNotFound"

\* the case of C10: revision 1, a successful SetRoutes(d, p, c, false) with
\* p + c = 100 on a list that holds both the primary and the canary entry
C10_Case ==
    /\ rev = 1
    /\ last.op = "SetRoutes" /\ last.res = "ok" /\ ~last.mirror
    /\ last.p + last.c = 100
    /\ HasName(last.pre, primaryName) /\ HasName(last.pre, canaryName)

\* C10 (as stated): right after such a SetRoutes the stored weights of the
\* primary and the canary entry sum to 1000.
C10_WeightsSumTo1000 ==
    C10_Case =>
        WeightOf(last.post, primaryName) + WeightOf(last.post, canaryName) = 1000

\* C10 (amended): right after such a SetRoutes the first canary entry weighs
\* 10 * c and the first primary entry weighs what it did before the call, so
\* the two sum to 1000 exactly when the primary weighed 10 * p before.
C10_CanarySetPrimaryKept ==
    C10_Case =>
        /\ WeightOf(last.post, canaryName) = 10 * last.c
        /\ WeightOf(last.post, primaryName) = WeightOf(last.pre, primaryName)
        /\ ( WeightOf(last.post, primaryName) + WeightOf(last.post, canaryName) = 1000
             <=> WeightOf(last.pre, primaryName) = 10 * last.p )

\* C10 witness: [primary@700, canary@305] after SetRoutes(d, 70, 30, false)
C10_Witness ==
    /\ C10_Case
    /\ last.p = 70 /\ last.c = 30
    /\ last.pre = << WeightedDestination(primaryName, canaryNamespace, 700),
                     WeightedDestination(canaryName, canaryNamespace, 305) >>
    /\ last.post = << WeightedDestination(primaryName, canaryNamespace, 700),
                      WeightedDestination(canaryName, canaryNamespace, 300) >>

\* the case of C11: a mutating call of gloo.go (revisions 1 and 2) whose Get
\* of the group failed
C11_Case ==
    /\ rev \in {1, 2}
    /\ last.op \in {"Reconcile", "SetRoutes", "Finalize"}
    /\ last.get \in {"NotFound", "Transport"}

\* C11: such a call returns an error and issues no Update (and nothing creates
\* the group): list, version and existence are as before; Reconcile answers
\* GroupNotFound for an absent group and QueryError for any other failure, the
\* other two QueryError.
C11_GetFailureNoWrite ==
    C11_Case =>
        /\ last.res = "error"
        /\ last.gets = 1 /\ last.updates = 0
        /\ last.post = last.pre /\ last.postVer = last.preVer
        /\ store.dests = last.pre /\ store.ver = last.preVer
        /\ last.get = "NotFound" => ~store.exists
        /\ last.op = "Reconcile" /\ last.get = "NotFound"
              => last.err = "GroupNotFound"
        /\ last.op = "Reconcile" /\ last.get = "Transport"
              => last.err = "QueryError"
        /\ last.op # "Reconcile" => last.err = "QueryError"

\* C11 witness: Reconcile on an absent group returned GroupNotFound
C11_Witness ==
    /\ C11_Case
    /\ last.op = "Reconcile" /\ last.get = "NotFound"
    /\ last.err = "GroupNotFound" /\ ~store.exists

\* the case of C12: GetRoutes of revision 1 read a list of two or more
\* entries that holds an entry named canaryName
C12_Case ==
    /\ rev = 1
    /\ last.op = "GetRoutes" /\ last.get = "ok"
    /\ Len(last.pre) >= 2 /\ HasName(last.pre, canaryName)

\* C12: it returns no error, canaryPercent = w div 10 for the weight w of the
\* first canary entry (truncated), primaryPercent = 100 - canaryPercent
\* whatever the primary entry weighs, mirrored = false; both percentages lie
\* in 0..100 and sum to 100.
C12_GetRoutesResult ==
    C12_Case =>
        LET w == WeightOf(last.pre, canaryName)
        IN  /\ w \in 0..1000
            /\ last.res = "ok" /\ last.err = "none"
            /\ last.out.canary = w \div 10
            /\ 10 * last.out.canary <= w /\ w < 10 * last.out.canary + 10
            /\ last.out.primary = 100 - last.out.canary
            /\ last.out.mirrored = FALSE
            /\ last.out.primary \in 0..100 /\ last.out.canary \in 0..100
            /\ last.out.primary + last.out.canary = 100

\* C12 witness: [legacy@500, canary@305] read as (70, 30, false): 305 is
\* truncated to 30 and no primary entry is stored at all
C12_Witness ==
    /\ C12_Case
    /\ last.pre = << WeightedDestination(otherName, otherNamespace, 500),
                     WeightedDestination(canaryName, canaryNamespace, 305) >>
    /\ last.res = "ok"
    /\ last.out = [primary |-> 70, canary |-> 30, mirrored |-> FALSE]

\* C13 (as stated): in revision 3, after a successful SetRoutes(d, p, c, false)
\* with p + c = 100 on a list that holds the canary entry, the stored weight
\* of the canary entry is 10 * c.
C13_CanaryWeightStored ==
    ( /\ rev = 3
      /\ last.op = "SetRoutes" /\ last.res = "ok" /\ ~last.mirror
      /\ last.p + last.c = 100
      /\ HasName(last.pre, canaryName) )
    => /\ HasName(last.post, canaryName)
       /\ WeightOf(last.post, canaryName) = 10 * last.c

\* C14 (as stated): in revision 3, a successful Reconcile on a list that
\* already holds the canary entry writes back that list: every entry once, in
\* order, nothing blank or doubled, no longer than before.
C14_ReconcileKeepsList ==
    ( /\ rev = 3
      /\ last.op = "Reconcile" /\ last.res = "ok"
      /\ HasName(last.pre, canaryName) )
    => /\ Len(last.post) <= Len(last.pre)
       /\ \A i \in 1..Len(last.post) : last.post[i] # ZeroDestination
       /\ IgnoreWeight(last.post) = IgnoreWeight(last.pre)

\* C15 (as stated): in revision 2, a Reconcile that wrote the group back kept
\* the weight of every entry named primaryName or canaryName it had read.
C15_ReconcileKeepsWeights ==
    ( /\ rev = 2
      /\ last.op = "Reconcile" /\ last.res = "ok" /\ last.updates = 1 )
    => \A n \in {primaryName, canaryName} :
          HasName(last.pre, n)
             => /\ HasName(last.post, n)
                /\ WeightOf(last.post, n) = WeightOf(last.pre, n)

\* ------------------------------------------- the diff gate of revision 2
\* stored entries for the structural diff: the pool, and the primary and the
\* canary name under a namespace that is not the canary's
DiffPool ==
    EntryPool \cup
    { WeightedDestination(primaryName, otherNamespace, 700),
      WeightedDestination(canaryName, otherNamespace, 305) }

DiffLists == UNION { [1..n -> DiffPool] : n \in 0..MaxLen }

InitDiff ==
    /\ rev = 2
    /\ \E s \in DiffLists : store = [exists |-> TRUE, dests |-> s, ver |-> 0]
    /\ pc = [k \in Callers |-> "idle"]
    /\ loc = [k \in Callers |-> NoLoc]
    /\ last = NoCall
    /\ prev = [op |-> "none", p |-> 0, c |-> 0, mirror |-> FALSE, updates |-> 0]

NextDiff ==
    \/ Reconcile("c1")
    \/ Update("c1")

\* Reconcile of revision 2 alone, on every list over DiffPool
SpecDiff == InitDiff /\ [][NextDiff]_vars

\* the list is, weights apart, [primaryName, canaryName] in canary.Namespace
IsCanonical(s) ==
    /\ Len(s) = 2
    /\ s[1].name = primaryName /\ s[1].ns = canaryNamespace
    /\ s[2].name = canaryName /\ s[2].ns = canaryNamespace

\* C16: Reconcile of revision 2 issues an Update exactly when the list it read
\* differs from [primaryName, canaryName] (both in the canary's namespace) in
\* a name, a namespace, the number or the order of entries; weights do not
\* count.
C16_UpdateIffStructuralDiff ==
    ( /\ rev = 2
      /\ last.op = "Reconcile" /\ last.get = "ok" )
    => /\ last.updates = 1 <=> ~IsCanonical(last.pre)
       /\ last.updates = 0 => last.res = "ok" /\ last.post = last.pre
                              /\ last.postVer = last.preVer

\* C16 witness: [primary@700, canary@305], weights unlike newSpec's, was left
\* unwritten
C16_Witness ==
    /\ rev = 2
    /\ last.op = "Reconcile" /\ last.res = "ok" /\ last.updates = 0
    /\ last.pre = << WeightedDestination(primaryName, canaryNamespace, 700),
                     WeightedDestination(canaryName, canaryNamespace, 305) >>
    /\ store.dests = last.pre /\ store.ver = 0

\* C17: in revision 1, a successful SetRoutes wrote a list that differs from
\* the list it read in nothing but the weight of the first entry named
\* canaryName: the length, the order, every name and namespace, and every
\* other entry's weight (the primary's too) are as they were.
C17_SetRoutesFrame ==
    ( /\ rev = 1
      /\ last.op = "SetRoutes" /\ last.res = "ok" )
    => /\ Len(last.post) = Len(last.pre)
       /\ \A i \in 1..Len(last.pre) :
             /\ last.post[i].name = last.pre[i].name
             /\ last.post[i].ns = last.pre[i].ns
             /\ i # IndexOf(last.pre, canaryName)
                   => last.post[i].weight = last.pre[i].weight
       /\ store.dests = last.post

\* C17 witness: of two entries named canaryName after the primary, SetRoutes
\* re-weighted the first and left the second and the primary alone
C17_Witness ==
    /\ rev = 1
    /\ last.op = "SetRoutes" /\ last.res = "ok" /\ last.c = 30
    /\ last.pre = << WeightedDestination(primaryName, canaryNamespace, 700),
                     WeightedDestination(canaryName, canaryNamespace, 305),
                     WeightedDestination(canaryName, canaryNamespace, 305) >>
    /\ last.post = << WeightedDestination(primaryName, canaryNamespace, 700),
                      WeightedDestination(canaryName, canaryNamespace, 300),
                      WeightedDestination(canaryName, canaryNamespace, 305) >>

\* ------------------------------------------- one caller, no other writer
InitLife ==
    /\ rev = 1
    /\ \E s \in GroupLists :
          /\ UniqueNames(s)
          /\ store = [exists |-> TRUE, dests |-> s, ver |-> 0]
    /\ pc = [k \in Callers |-> "idle"]
    /\ loc = [k \in Callers |-> NoLoc]
    /\ last = NoCall
    /\ prev = [op |-> "none", p |-> 0, c |-> 0, mirror |-> FALSE, updates |-> 0]

NextLife ==
    \/ Reconcile("c1")
    \/ GetRoutes("c1")
    \/ SetRoutes("c1")
    \/ Finalize("c1")
    \/ Update("c1")

\* revision 1 called by one caller on a group nobody else writes
SpecLife == InitLife /\ [][NextLife]_vars

\* C18: in revision 1, with no other writer and unique names, a successful
\* Finalize leaves the stored list without the canary entry; while the list
\* has no canary entry every GetRoutes fails (InsufficientDestinations under
\* two entries, DestinationNotFound otherwise, when its Get read the list);
\* and the only step that brings a canary entry back is a successful
\* Reconcile, which stores it at weight 0.
C18_Lifecycle ==
    [][ /\ (last'.op = "Finalize" /\ last'.res = "ok")
            => ~HasName(store'.dests, canaryName)
        /\ ( /\ ~HasName(store.dests, canaryName)
             /\ pc["c1"] = "idle" /\ pc'["c1"] = "idle"
             /\ last'.op = "GetRoutes" )
            => /\ last'.res = "error"
               /\ last'.get = "ok"
                     => last'.err = IF Len(store.dests) < 2
                                    THEN "InsufficientDestinations"
                                    ELSE "DestinationNotFound"
        /\ (~HasName(store.dests, canaryName) /\ HasName(store'.dests, canaryName))
            => /\ last'.op = "Reconcile" /\ last'.res = "ok"
               /\ WeightOf(store'.dests, canaryName) = 0
        /\ UniqueNames(store'.dests)
      ]_vars

\* C18 witness: a Reconcile succeeded on the list a Finalize had left, two
\* entries without the canary, and the canary entry is back at weight 0
C18_Witness ==
    /\ rev = 1
    /\ prev.op = "Finalize" /\ prev.updates = 1
    /\ last.op = "Reconcile" /\ last.res = "ok" /\ last.updates = 1
    /\ Len(last.pre) = 2 /\ ~HasName(last.pre, canaryName)
    /\ GetRoutes1(last.pre).err = "DestinationNotFound"
    /\ HasName(store.dests, canaryName)
    /\ WeightOf(store.dests, canaryName) = 0

\* C19 (as stated): in revision 1, every successful Reconcile emits exactly
\* one event, and the event says that an update occurred exactly when the call
\* issued an Update.
C19_EventTellsUpdate ==
    ( /\ rev = 1
      /\ last.op = "Reconcile" /\ last.res = "ok" )
    => /\ last.event \in {"updated", "no_update"}
       /\ last.event = "updated" <=> last.updates = 1

\* ------------------------------------------------ two callers, one group
InitConc ==
    /\ rev = 1
    /\ \E s \in GroupLists :
          /\ UniqueNames(s)
          /\ store = [exists |-> TRUE, dests |-> s, ver |-> 0]
    /\ pc = [k \in Callers |-> "idle"]
    /\ loc = [k \in Callers |-> NoLoc]
    /\ last = NoCall
    /\ prev = [op |-> "none", p |-> 0, c |-> 0, mirror |-> FALSE, updates |-> 0]

\* the SetRoutes calls of the two callers: one rejected, one that writes
ConcArgs == { <<0, 0, FALSE>>, <<70, 30, FALSE>> }

NextConc ==
    \/ \E k \in Callers : Reconcile(k)
    \/ \E k \in Callers : SetRoutesWith(k, ConcArgs)
    \/ \E k \in Callers : Finalize(k)
    \/ \E k \in Callers : Update(k)

\* revision 1 called by two callers whose Get and Update steps interleave
SpecConc == InitConc /\ [][NextConc]_vars

CanaryCount(s) == Cardinality({i \in 1..Len(s) : s[i].name = canaryName})

\* C20: in revision 1, with two callers whose Reconcile, SetRoutes and
\* Finalize calls interleave at their Get and Update steps, starting from a
\* list with unique names, the stored list never has two entries named
\* canaryName.
C20_OneCanary == CanaryCount(store.dests) <= 1

\* C20 witness: both callers read a list without the canary entry and planned
\* to append it; the first Update stored it, the second was rejected as stale
C20_Witness ==
    /\ rev = 1
    /\ prev.op = "Reconcile" /\ prev.updates = 1
    /\ last.op = "Reconcile" /\ last.err = "Conflict"
    /\ ~HasName(last.pre, canaryName)
    /\ CanaryCount(store.dests) = 1
    /\ pc = [k \in Callers |-> "idle"]

====
